---- MODULE Spec2Model ----
(***************************************************************************)
(* Radial light-beam utilities of the ORNINA site:                         *)
(*   src/lib/utils/radial-beams.ts   calculateResponsiveRadii,             *)
(*                                   validateBeamConfig,                   *)
(*                                   generateRadialBeams,                  *)
(*                                   mergeWithDefaults                     *)
(*   src/unnamed/part_003            useStuckBeamDetection                 *)
(*                                                                         *)
(* NUMBERS.  A JavaScript number (or a missing property) is a record       *)
(*   [k |-> "num", v |-> n]   a finite number, n in fixed point            *)
(*   [k |-> "nan"]            NaN                                          *)
(*   [k |-> "undef"]          undefined (property or argument not given)   *)
(*   [k |-> "inf"]            +Infinity, also the result of an operation   *)
(*                            whose double-precision result overflows      *)
(*   [k |-> "ninf"]           -Infinity                                    *)
(* (all with a v field, 0 when k # "num").  Units of v:                    *)
(*   count, viewportWidth, viewportHeight, beam id    1                    *)
(*   every other quantity (radii, seconds, degrees,                        *)
(*   opacity, width, blur, Math.random())             1/1000               *)
(***************************************************************************)
EXTENDS Integers, Sequences, FiniteSets, TLC

VARIABLES
  mergeArgs,      \* arguments of the last mergeWithDefaults call
  mergeResult,    \* what that call returned
  remergeResult,  \* mergeWithDefaults(mergeResult, same viewport)
  genArgs,        \* argument of the generateRadialBeams call and the values
                  \* Math.random() returns during it
  genResult,      \* what that call returned
  descriptor,     \* argument of the validateBeamConfig call
  validResult,    \* what that call returned
  beamConfigs,    \* useStuckBeamDetection: the beamConfigs argument of the last render
  enabled,        \* the enabled argument of the last render
  onBeamStuck,    \* the onBeamStuck argument of the last render
  beamPositions,  \* beamPositions.current: beam id -> BeamPositionData
  intervals,      \* the interval timers that are set and not cleared
  intervalId,     \* the timer the pending effect cleanup will clear
  now,            \* Date.now(), in ms
  transforms,     \* per beam id, the computed transform of its element as
                  \* checkForStuckBeams last read it
  stuckCalls,     \* the beam ids onBeamStuck was called with, in order, by the
                  \* last run of checkForStuckBeams
  stuckErrors,    \* the beam ids that run logged the persistent-issue
                  \* console.error for, in order
  lastTick,       \* Date.now() of that run (-1: it has not run)
  highestResetCount,  \* history: per beam id, the largest resetCount an
                      \* entry of that id has carried so far
  stats,          \* what the getStats call returned
  lightBeamsArgs, \* LightBeams: the props, state and window the memo
                  \* radialBeamConfigs is computed from
  lightBeamsResult,   \* the value of that memo
  bodyOverflow,   \* useBodyScrollLock: the computed overflow of document.body
  scrollLocks,    \* per hook instance: whether its effect is in force and
                  \* the originalStyle its cleanup holds
  pageOverflow    \* the overflow of document.body before any lock

varsMerge == <<mergeArgs, mergeResult, remergeResult>>
varsGen == <<genArgs, genResult>>
varsValidate == <<descriptor, validResult>>
varsMonitor == <<beamConfigs, enabled, onBeamStuck, beamPositions, intervals,
                 intervalId, now, transforms, stuckCalls, stuckErrors, lastTick,
                 highestResetCount, stats>>
varsLightBeams == <<lightBeamsArgs, lightBeamsResult>>
varsScrollLock == <<bodyOverflow, scrollLocks, pageOverflow>>
vars == <<varsMerge, varsGen, varsValidate, varsMonitor, varsLightBeams,
          varsScrollLock>>

----------------------------------------------------------------------------
(* JavaScript number semantics used by the code *)

Num(n) == [k |-> "num", v |-> n]
NaN == [k |-> "nan", v |-> 0]
Undefined == [k |-> "undef", v |-> 0]
Infinity == [k |-> "inf", v |-> 0]
NegInfinity == [k |-> "ninf", v |-> 0]

\* ToNumber(undefined) is NaN: neither takes part in an ordering.
IsNaN(a) == a.k \in {"nan", "undef"}

\* a < b
Lt(a, b) ==
  /\ ~IsNaN(a)
  /\ ~IsNaN(b)
  /\ \/ a.k = "ninf" /\ b.k # "ninf"
     \/ a.k = "num" /\ b.k = "inf"
     \/ a.k = "num" /\ b.k = "num" /\ a.v < b.v

\* a <= b
Le(a, b) == ~IsNaN(a) /\ ~IsNaN(b) /\ (Lt(a, b) \/ a = b)

\* a > b and a >= b
Gt(a, b) == Lt(b, a)
Ge(a, b) == Le(b, a)

\* Boolean(a): undefined, NaN and 0 are falsy
Truthy(a) == ~IsNaN(a) /\ a # Num(0)

\* a || b
OrElse(a, b) == IF Truthy(a) THEN a ELSE b

\* (a changed Coalesce: the default taken with ||, so that 0 counts as missing)
CoalesceFalsy(a, b) == IF Truthy(a) THEN a ELSE b

\* a ?? b
Coalesce(a, b) == IF a.k = "undef" THEN b ELSE a

\* Math.max(a, b), Math.min(a, b): NaN if either argument is NaN
MathMax(a, b) == IF IsNaN(a) \/ IsNaN(b) THEN NaN ELSE IF Lt(a, b) THEN b ELSE a
MathMin(a, b) == IF IsNaN(a) \/ IsNaN(b) THEN NaN ELSE IF Lt(b, a) THEN b ELSE a

\* i * x for an integer i >= 0 (0 * Infinity is NaN)
Times(i, x) ==
  IF IsNaN(x) THEN NaN
  ELSE IF x.k = "num" THEN Num(i * x.v)
  ELSE IF i = 0 THEN NaN ELSE x

\* n / x for an integer n > 0, in the unit of n, rounded down
DividedBy(n, x) ==
  IF IsNaN(x) THEN NaN
  ELSE IF x.k # "num" THEN Num(0)
  ELSE IF x.v = 0 THEN Infinity
  ELSE Num(n \div x.v)

\* floor of the square root of a natural number, by bisection
RECURSIVE SqrtBetween(_, _, _)
SqrtBetween(n, lo, hi) ==
  IF hi - lo <= 1 THEN lo
  ELSE LET mid == (lo + hi) \div 2
       IN IF mid * mid <= n THEN SqrtBetween(n, mid, hi)
                            ELSE SqrtBetween(n, lo, mid)

MathSqrt(n) == SqrtBetween(n, 0, 46341)

----------------------------------------------------------------------------
(* radial-beams.ts *)

\* calculateResponsiveRadii(viewportWidth, viewportHeight), both in pixels;
\* the diagonal is taken to the whole pixel, the radii are in 1/1000 px.
calculateResponsiveRadii(viewportWidth, viewportHeight) ==
  IF IsNaN(viewportWidth) \/ IsNaN(viewportHeight)
  THEN [outer |-> NaN, inner |-> NaN]
  ELSE IF viewportWidth.k # "num" \/ viewportHeight.k # "num"
  THEN [outer |-> Infinity, inner |-> Infinity]
  ELSE LET diagonal == MathSqrt(viewportWidth.v * viewportWidth.v
                                + viewportHeight.v * viewportHeight.v)
       IN [outer |-> Num(diagonal * 700), inner |-> Num(diagonal * 150)]

getDefaultBeamConfig ==
  [count |-> Num(24), cycleDuration |-> Num(6000), stagger |-> Num(150)]

\* count ?? d etc. followed by the range check and clamp of lines 382-388,
\* 393-399 and 404-410: if (x < lo || x > hi) x = Math.max(lo, Math.min(hi, x))
ClampInto(x, lo, hi) ==
  IF Lt(x, lo) \/ Gt(x, hi) THEN MathMax(lo, MathMin(hi, x)) ELSE x

\* (a changed ResolveRadii: the sign check of lines 366-371 left out)
ResolveRadiiNoSignCheck(userConfig, safeViewportWidth, safeViewportHeight) ==
  IF Truthy(userConfig.outerRadius) /\ Truthy(userConfig.innerRadius)
  THEN IF Le(userConfig.outerRadius, userConfig.innerRadius)
       THEN calculateResponsiveRadii(safeViewportWidth, safeViewportHeight)
       ELSE [outer |-> userConfig.outerRadius, inner |-> userConfig.innerRadius]
  ELSE calculateResponsiveRadii(safeViewportWidth, safeViewportHeight)

\* the radii branch of mergeWithDefaults (lines 354-377)
ResolveRadii(userConfig, safeViewportWidth, safeViewportHeight) ==
  IF Truthy(userConfig.outerRadius) /\ Truthy(userConfig.innerRadius)
  THEN IF Le(userConfig.outerRadius, userConfig.innerRadius)
       THEN calculateResponsiveRadii(safeViewportWidth, safeViewportHeight)
       ELSE IF Le(userConfig.outerRadius, Num(0)) \/ Lt(userConfig.innerRadius, Num(0))
       THEN calculateResponsiveRadii(safeViewportWidth, safeViewportHeight)
       ELSE [outer |-> userConfig.outerRadius, inner |-> userConfig.innerRadius]
  ELSE calculateResponsiveRadii(safeViewportWidth, safeViewportHeight)

\* the viewport sanitation of mergeWithDefaults (lines 344-345)
SafeViewportWidth(viewportWidth) == MathMax(Num(320), OrElse(viewportWidth, Num(1920)))
SafeViewportHeight(viewportHeight) == MathMax(Num(568), OrElse(viewportHeight, Num(1080)))

mergeWithDefaults(userConfig, viewportWidth, viewportHeight) ==
  LET defaults == getDefaultBeamConfig
      safeViewportWidth == SafeViewportWidth(viewportWidth)
      safeViewportHeight == SafeViewportHeight(viewportHeight)
      radii == ResolveRadii(userConfig, safeViewportWidth, safeViewportHeight)
      beamCount == ClampInto(Coalesce(userConfig.count, defaults.count),
                             Num(16), Num(36))
      cycleDuration == ClampInto(Coalesce(userConfig.cycleDuration, defaults.cycleDuration),
                                 Num(5000), Num(8000))
      stagger == ClampInto(Coalesce(userConfig.stagger, defaults.stagger),
                           Num(0), Num(1000))
  IN [count |-> beamCount,
      outerRadius |-> radii.outer,
      innerRadius |-> radii.inner,
      cycleDuration |-> cycleDuration,
      stagger |-> stagger,
      viewportWidth |-> safeViewportWidth,
      viewportHeight |-> safeViewportHeight]

\* the checks of validateBeamConfig that fail on config (errors, lines 150-198)
ValidationErrors(config) ==
  {e \in {"angle", "radius", "blur", "baseOpacity", "peakOpacity", "cycleDuration", "width"} :
     \/ e = "angle" /\ (Lt(config.angle, Num(0)) \/ Ge(config.angle, Num(360000)))
     \/ e = "radius" /\ Le(config.startRadius, config.endRadius)
     \/ e = "blur" /\ (Lt(config.blurRadius, Num(18000)) \/ Gt(config.blurRadius, Num(28000)))
     \/ e = "baseOpacity" /\ (Lt(config.baseOpacity, Num(0)) \/ Gt(config.baseOpacity, Num(1000)))
     \/ e = "peakOpacity" /\ (Lt(config.peakOpacity, Num(0)) \/ Gt(config.peakOpacity, Num(1000)))
     \/ e = "cycleDuration" /\ (Lt(config.cycleDuration, Num(5000)) \/ Gt(config.cycleDuration, Num(8000)))
     \/ e = "width" /\ Le(config.width, Num(0))}

validateBeamConfig(config) == ValidationErrors(config) = {}

\* the k-th value (k = 0, 1, ...) Math.random() returns during a call, the
\* values of the call being those of the sequence random, repeated
MathRandom(random, k) == random[(k % Len(random)) + 1]

\* (a changed MakeBeam: the angle taken one step too far)
MakeBeamAngleOffByOne(config, random, i) ==
  [id |-> i,
   angle |-> Times(i + 1, DividedBy(360000, config.count)),
   startRadius |-> config.outerRadius,
   endRadius |-> config.innerRadius,
   width |-> Num(80000 + MathRandom(random, 4 * i) * 40),
   baseOpacity |-> Num(300 + (MathRandom(random, 4 * i + 1) * 100) \div 1000),
   peakOpacity |-> Num(400 + (MathRandom(random, 4 * i + 2) * 150) \div 1000),
   blurRadius |-> Num(18000 + MathRandom(random, 4 * i + 3) * 10),
   cycleDuration |-> config.cycleDuration,
   staggerDelay |-> Times(i, config.stagger)]

\* (a changed MakeBeam: the stagger delay counted from 1)
MakeBeamStaggerFromOne(config, random, i) ==
  [id |-> i,
   angle |-> Times(i, DividedBy(360000, config.count)),
   startRadius |-> config.outerRadius,
   endRadius |-> config.innerRadius,
   width |-> Num(80000 + MathRandom(random, 4 * i) * 40),
   baseOpacity |-> Num(300 + (MathRandom(random, 4 * i + 1) * 100) \div 1000),
   peakOpacity |-> Num(400 + (MathRandom(random, 4 * i + 2) * 150) \div 1000),
   blurRadius |-> Num(18000 + MathRandom(random, 4 * i + 3) * 10),
   cycleDuration |-> config.cycleDuration,
   staggerDelay |-> Times(i + 1, config.stagger)]

\* (a changed MakeBeam: the peak opacity drawn from 0.3 on, like the base)
MakeBeamPeakFromBase(config, random, i) ==
  [id |-> i,
   angle |-> Times(i, DividedBy(360000, config.count)),
   startRadius |-> config.outerRadius,
   endRadius |-> config.innerRadius,
   width |-> Num(80000 + MathRandom(random, 4 * i) * 40),
   baseOpacity |-> Num(300 + (MathRandom(random, 4 * i + 1) * 100) \div 1000),
   peakOpacity |-> Num(300 + (MathRandom(random, 4 * i + 2) * 150) \div 1000),
   blurRadius |-> Num(18000 + MathRandom(random, 4 * i + 3) * 10),
   cycleDuration |-> config.cycleDuration,
   staggerDelay |-> Times(i, config.stagger)]

\* beamConfig of loop index i (lines 251-285); id i stands for `radial-beam-${i}`
MakeBeam(config, random, i) ==
  [id |-> i,
   angle |-> Times(i, DividedBy(360000, config.count)),
   startRadius |-> config.outerRadius,
   endRadius |-> config.innerRadius,
   width |-> Num(80000 + MathRandom(random, 4 * i) * 40),
   baseOpacity |-> Num(300 + (MathRandom(random, 4 * i + 1) * 100) \div 1000),
   peakOpacity |-> Num(400 + (MathRandom(random, 4 * i + 2) * 150) \div 1000),
   blurRadius |-> Num(18000 + MathRandom(random, 4 * i + 3) * 10),
   cycleDuration |-> config.cycleDuration,
   staggerDelay |-> Times(i, config.stagger)]

\* how often the body of `for (let i = 0; i < count; i++)` runs
\* (count = Infinity, for which the loop never ends, is not passed)
Iterations(count) == IF count.k = "num" /\ count.v > 0 THEN count.v ELSE 0

\* the loop of generateRadialBeams (lines 243-305): the beams that pass
\* validateBeamConfig, in index order
GenerateLoop(config, random) ==
  SelectSeq([n \in 1..Iterations(config.count) |-> MakeBeam(config, random, n - 1)],
            validateBeamConfig)

\* (a changed generateRadialBeams: inverted radii swapped instead of refused)
generateSwappingRadii(config, random) ==
  IF Le(config.outerRadius, config.innerRadius)
  THEN GenerateLoop([config EXCEPT !.outerRadius = config.innerRadius,
                                   !.innerRadius = config.outerRadius], random)
  ELSE GenerateLoop(config, random)

\* (a changed generateRadialBeams: count is clamped into [16,36] first)
generateClampingCount(config, random) ==
  IF Le(config.outerRadius, config.innerRadius)
  THEN <<>>
  ELSE GenerateLoop([config EXCEPT !.count = ClampInto(config.count, Num(16), Num(36))],
                    random)

generateRadialBeams(config, random) ==
  IF Le(config.outerRadius, config.innerRadius)
  THEN <<>>
  ELSE GenerateLoop(config, random)

----------------------------------------------------------------------------
(* part_007: the memo radialBeamConfigs of LightBeams (lines 1259-1370) *)

\* responsiveBeamCount of lines 1272-1291 (!beamCount holds for a missing,
\* NaN or 0 beamCount)
ResponsiveBeamCount(beamCount, enableResponsiveBeams, viewportType) ==
  IF enableResponsiveBeams /\ ~Truthy(beamCount)
  THEN CASE viewportType = "mobile" -> Num(16)
         [] viewportType = "tablet" -> Num(24)
         [] viewportType = "desktop" -> Num(36)
         [] OTHER -> Num(24)
  ELSE beamCount

\* safeConfig of lines 1296-1306
SafeConfig(args) ==
  mergeWithDefaults(
    [count |-> ResponsiveBeamCount(args.beamCount, args.enableResponsiveBeams,
                                   args.viewportType),
     outerRadius |-> args.responsiveRadii.outer,
     innerRadius |-> args.responsiveRadii.inner,
     cycleDuration |-> args.cycleDuration,
     stagger |-> args.staggerAmount,
     viewportWidth |-> Undefined, viewportHeight |-> Undefined],
    args.innerWidth, args.innerHeight)

\* validatedBeams of lines 1310-1326
ValidatedBeams(args) ==
  SelectSeq(generateRadialBeams(SafeConfig(args), args.random), validateBeamConfig)

\* fallbackConfig of lines 1346-1354
FallbackConfig(args) ==
  mergeWithDefaults(
    [count |-> Num(8), cycleDuration |-> Num(6000), stagger |-> Num(150),
     outerRadius |-> Undefined, innerRadius |-> Undefined,
     viewportWidth |-> Undefined, viewportHeight |-> Undefined],
    args.innerWidth, args.innerHeight)

\* fallbackBeams of line 1357
FallbackBeams(args) == generateRadialBeams(FallbackConfig(args), args.random)

\* the function passed to React.useMemo (lines 1259-1369)
radialBeamConfigs(args) ==
  IF ~args.hasWindow THEN <<>>
  ELSE IF Len(ValidatedBeams(args)) = 0
  THEN IF Len(FallbackBeams(args)) = 0 THEN <<>> ELSE FallbackBeams(args)
  ELSE ValidatedBeams(args)

----------------------------------------------------------------------------
(* part_003: useStuckBeamDetection.  Times are in ms; a scale is in 1/1000,  *)
(* and config.cycleDuration, seconds in 1/1000, is cycleDurationMs as it is. *)

\* a computed transform: no element, 'none', matrix(a, ...) or matrix3d(...)
NoElement == [kind |-> "absent", a |-> 0]
TransformNone == [kind |-> "none", a |-> 0]
Matrix(a) == [kind |-> "matrix", a |-> a]
Matrix3d == [kind |-> "matrix3d", a |-> 0]

\* currentScale of lines 76-84: 1 unless the transform is matrix(a, ...) with
\* a # 0 (matrix3d(...) does not match /matrix\(([^)]+)\)/)
CurrentScale(transform) ==
  IF transform.kind = "matrix" /\ transform.a # 0 THEN transform.a ELSE 1000

\* Math.abs
MathAbs(x) == IF x < 0 THEN -x ELSE x

\* (a changed IsStuck: a stall of exactly one cycle counts)
IsStuckAtCycle(timeSinceLastMove, cycleDurationMs) == timeSinceLastMove >= cycleDurationMs

\* line 117
IsStuck(timeSinceLastMove, cycleDurationMs) == timeSinceLastMove > cycleDurationMs

\* (a changed MapDelete: the whole map is cleared)
MapClear(positions, beamId) == <<>>

\* Map.prototype.delete (line 167)
MapDelete(positions, beamId) ==
  [b \in DOMAIN positions \ {beamId} |-> positions[b]]

\* the tracking map after the call of lines 127-129: a callback that calls
\* resetBeamTracking(beamId) has deleted the entry, any other leaves the map
AfterCallback(positions, callback, beamId) ==
  IF callback = "resetsTracking" THEN MapDelete(positions, beamId) ELSE positions

\* (a changed IsPersistent: the error is logged one reset later)
IsPersistentFromFourth(prevResetCount) == prevResetCount >= 3

\* line 140: the reset being recorded is the third or a later one
IsPersistent(prevResetCount) == prevResetCount >= 2

\* (a changed CheckBeam: a stuck beam keeps the lastScale it had)
CheckBeamKeepingScale(st, config, callback, currentTime, dom) ==
  LET transform == dom[config.id]
      currentScale == CurrentScale(transform)
      prevData == st.positions[config.id]
  IN IF transform = NoElement THEN st
     ELSE IF config.id \notin DOMAIN st.positions
     THEN [st EXCEPT !.positions = config.id :> [lastScale |-> currentScale,
                                                 timestamp |-> currentTime,
                                                 resetCount |-> 0] @@ @]
     ELSE IF MathAbs(currentScale - prevData.lastScale) > 10
     THEN [st EXCEPT !.positions = config.id :> [lastScale |-> currentScale,
                                                 timestamp |-> currentTime,
                                                 resetCount |-> prevData.resetCount] @@ @]
     ELSE IF IsStuck(currentTime - prevData.timestamp, config.cycleDuration)
     THEN [positions |-> config.id :> [lastScale |-> prevData.lastScale,
                                       timestamp |-> currentTime,
                                       resetCount |-> prevData.resetCount + 1]
                         @@ AfterCallback(st.positions, callback, config.id),
           calls |-> IF callback = "undefined" THEN st.calls
                     ELSE Append(st.calls, config.id),
           errors |-> IF IsPersistent(prevData.resetCount)
                      THEN Append(st.errors, config.id) ELSE st.errors]
     ELSE st


\* (a changed CheckBeam: a beam that moved starts again at resetCount 0)
CheckBeamForgettingResets(st, config, callback, currentTime, dom) ==
  LET transform == dom[config.id]
      currentScale == CurrentScale(transform)
      prevData == st.positions[config.id]
  IN IF transform = NoElement THEN st
     ELSE IF config.id \notin DOMAIN st.positions
     THEN [st EXCEPT !.positions = config.id :> [lastScale |-> currentScale,
                                                 timestamp |-> currentTime,
                                                 resetCount |-> 0] @@ @]
     ELSE IF MathAbs(currentScale - prevData.lastScale) > 10
     THEN [st EXCEPT !.positions = config.id :> [lastScale |-> currentScale,
                                                 timestamp |-> currentTime,
                                                 resetCount |-> 0] @@ @]
     ELSE IF IsStuck(currentTime - prevData.timestamp, config.cycleDuration)
     THEN [positions |-> config.id :> [lastScale |-> currentScale,
                                       timestamp |-> currentTime,
                                       resetCount |-> prevData.resetCount + 1]
                         @@ AfterCallback(st.positions, callback, config.id),
           calls |-> IF callback = "undefined" THEN st.calls
                     ELSE Append(st.calls, config.id),
           errors |-> IF IsPersistent(prevData.resetCount)
                      THEN Append(st.errors, config.id) ELSE st.errors]
     ELSE st


\* (a changed CheckBeam: the callback is also called when the entry is created)
CheckBeamCallingOnFirstSight(st, config, callback, currentTime, dom) ==
  LET transform == dom[config.id]
      currentScale == CurrentScale(transform)
      prevData == st.positions[config.id]
  IN IF transform = NoElement THEN st
     ELSE IF config.id \notin DOMAIN st.positions
     THEN [st EXCEPT !.positions = config.id :> [lastScale |-> currentScale,
                                                 timestamp |-> currentTime,
                                                 resetCount |-> 0] @@ @,
                     !.calls = IF callback = "undefined" THEN @
                               ELSE Append(@, config.id)]
     ELSE IF MathAbs(currentScale - prevData.lastScale) > 10
     THEN [st EXCEPT !.positions = config.id :> [lastScale |-> currentScale,
                                                 timestamp |-> currentTime,
                                                 resetCount |-> prevData.resetCount] @@ @]
     ELSE IF IsStuck(currentTime - prevData.timestamp, config.cycleDuration)
     THEN [positions |-> config.id :> [lastScale |-> currentScale,
                                       timestamp |-> currentTime,
                                       resetCount |-> prevData.resetCount + 1]
                         @@ AfterCallback(st.positions, callback, config.id),
           calls |-> IF callback = "undefined" THEN st.calls
                     ELSE Append(st.calls, config.id),
           errors |-> IF IsPersistent(prevData.resetCount)
                      THEN Append(st.errors, config.id) ELSE st.errors]
     ELSE st


\* (a changed CheckBeam: the stall is tested on the time alone, before the movement)
CheckBeamStallBeforeMove(st, config, callback, currentTime, dom) ==
  LET transform == dom[config.id]
      currentScale == CurrentScale(transform)
      prevData == st.positions[config.id]
  IN IF transform = NoElement THEN st
     ELSE IF config.id \notin DOMAIN st.positions
     THEN [st EXCEPT !.positions = config.id :> [lastScale |-> currentScale,
                                                 timestamp |-> currentTime,
                                                 resetCount |-> 0] @@ @]
     ELSE IF MathAbs(currentScale - prevData.lastScale) > 10
             /\ ~IsStuck(currentTime - prevData.timestamp, config.cycleDuration)
     THEN [st EXCEPT !.positions = config.id :> [lastScale |-> currentScale,
                                                 timestamp |-> currentTime,
                                                 resetCount |-> prevData.resetCount] @@ @]
     ELSE IF IsStuck(currentTime - prevData.timestamp, config.cycleDuration)
     THEN [positions |-> config.id :> [lastScale |-> currentScale,
                                       timestamp |-> currentTime,
                                       resetCount |-> prevData.resetCount + 1]
                         @@ AfterCallback(st.positions, callback, config.id),
           calls |-> IF callback = "undefined" THEN st.calls
                     ELSE Append(st.calls, config.id),
           errors |-> IF IsPersistent(prevData.resetCount)
                      THEN Append(st.errors, config.id) ELSE st.errors]
     ELSE st


\* the body of beamConfigs.forEach (lines 60-148) for one config, on the
\* state st = [positions, calls, errors] the earlier configs of the tick
\* left; dom[id] is what getComputedStyle returns for the element of beam id.
\* A callback that calls resetBeamTracking(id) deletes the entry before
\* line 132 sets it.
CheckBeam(st, config, callback, currentTime, dom) ==
  LET transform == dom[config.id]
      currentScale == CurrentScale(transform)
      prevData == st.positions[config.id]
  IN IF transform = NoElement THEN st
     ELSE IF config.id \notin DOMAIN st.positions
     THEN [st EXCEPT !.positions = config.id :> [lastScale |-> currentScale,
                                                 timestamp |-> currentTime,
                                                 resetCount |-> 0] @@ @]
     ELSE IF MathAbs(currentScale - prevData.lastScale) > 10
     THEN [st EXCEPT !.positions = config.id :> [lastScale |-> currentScale,
                                                 timestamp |-> currentTime,
                                                 resetCount |-> prevData.resetCount] @@ @]
     ELSE IF IsStuck(currentTime - prevData.timestamp, config.cycleDuration)
     THEN [positions |-> config.id :> [lastScale |-> currentScale,
                                       timestamp |-> currentTime,
                                       resetCount |-> prevData.resetCount + 1]
                         @@ AfterCallback(st.positions, callback, config.id),
           calls |-> IF callback = "undefined" THEN st.calls
                     ELSE Append(st.calls, config.id),
           errors |-> IF IsPersistent(prevData.resetCount)
                      THEN Append(st.errors, config.id) ELSE st.errors]
     ELSE st

\* (a changed CheckConfigs: the array is walked from its end)
RECURSIVE CheckConfigsLastFirst(_, _, _, _, _)
CheckConfigsLastFirst(st, configs, callback, currentTime, dom) ==
  IF configs = <<>> THEN st
  ELSE CheckBeam(CheckConfigsLastFirst(st, Tail(configs), callback, currentTime, dom),
                 Head(configs), callback, currentTime, dom)

\* checkForStuckBeams (lines 57-149): the configs in array order
RECURSIVE CheckConfigs(_, _, _, _, _)
CheckConfigs(st, configs, callback, currentTime, dom) ==
  IF configs = <<>> THEN st
  ELSE CheckConfigs(CheckBeam(st, Head(configs), callback, currentTime, dom),
                    Tail(configs), callback, currentTime, dom)

\* (a changed StatsAfter: totalResets counts the beams, not their resets)
RECURSIVE StatsAfterCountingBeams(_, _, _)
StatsAfterCountingBeams(st, positions, ids) ==
  IF ids = {} THEN st
  ELSE LET id == CHOOSE b \in ids : TRUE
           data == positions[id]
       IN StatsAfterCountingBeams(
            IF data.resetCount > 0
            THEN [st EXCEPT !.beamsWithResets = @ + 1, !.totalResets = @ + 1]
            ELSE st,
            positions, ids \ {id})

\* beamPositions.current.forEach of lines 184-189 over the entries of ids,
\* from the statistics st
RECURSIVE StatsAfter(_, _, _)
StatsAfter(st, positions, ids) ==
  IF ids = {} THEN st
  ELSE LET id == CHOOSE b \in ids : TRUE
           data == positions[id]
       IN StatsAfter(
            IF data.resetCount > 0
            THEN [st EXCEPT !.beamsWithResets = @ + 1,
                            !.totalResets = @ + data.resetCount]
            ELSE st,
            positions, ids \ {id})

\* getStats (lines 176-192)
getStats(configs, positions) ==
  StatsAfter([totalBeams |-> Len(configs),
              trackedBeams |-> Cardinality(DOMAIN positions),
              beamsWithResets |-> 0,
              totalResets |-> 0],
             positions, DOMAIN positions)

\* (a changed EffectIntervals: the guard of line 47 without !enabled)
EffectIntervalsIgnoringEnabled(configs, en, callback, t) ==
  IF Len(configs) = 0 THEN {}
  ELSE {[configs |-> configs, callback |-> callback, due |-> t + 2000]}

\* the effect of lines 46-158 run at time t: the timers after it
EffectIntervals(configs, en, callback, t) ==
  IF ~en \/ Len(configs) = 0 THEN {}
  ELSE {[configs |-> configs, callback |-> callback, due |-> t + 2000]}

----------------------------------------------------------------------------
(* Calls of mergeWithDefaults: the arguments are drawn from the sets below, *)
(* which hold a value of every class the code tells apart (missing, NaN,   *)
(* negative, zero, below, inside, on and above each range, overflowing).   *)

CountInputs ==
  {Undefined, NaN, Num(-5), Num(16), Num(37), Infinity}
RadiusInputs ==
  {Undefined, NaN, Num(-200000), Num(0), Num(100000), Num(200000), Infinity}
CycleDurationInputs ==
  {Undefined, NaN, Num(4999), Num(8000), Infinity}
StaggerInputs ==
  {Undefined, NaN, Num(-1), Num(150), Num(1001)}
ViewportWidthInputs ==
  {Undefined, Num(-100), Num(0), Num(100), Num(1920), Infinity}
ViewportHeightInputs ==
  {Undefined, NaN, Num(-100), Num(0), Num(200), Num(1080)}

PartialConfigs ==
  [count : CountInputs, outerRadius : RadiusInputs, innerRadius : RadiusInputs,
   cycleDuration : CycleDurationInputs, stagger : StaggerInputs,
   viewportWidth : {Undefined}, viewportHeight : {Undefined}]

MergeInputs ==
  [userConfig : PartialConfigs,
   viewportWidth : ViewportWidthInputs, viewportHeight : ViewportHeightInputs]

\* mergeWithDefaults(userConfig, viewportWidth, viewportHeight)
MergeCall ==
  /\ mergeResult = <<>>
  /\ mergeResult' = <<mergeWithDefaults(mergeArgs.userConfig,
                                        mergeArgs.viewportWidth, mergeArgs.viewportHeight)>>
  /\ UNCHANGED <<mergeArgs, remergeResult, varsGen, varsValidate, varsMonitor, varsLightBeams, varsScrollLock>>

\* the returned request is passed to mergeWithDefaults again, same viewport
RemergeCall ==
  /\ mergeResult # <<>>
  /\ remergeResult = <<>>
  /\ remergeResult' = <<mergeWithDefaults(mergeResult[1],
                                          mergeArgs.viewportWidth, mergeArgs.viewportHeight)>>
  /\ UNCHANGED <<mergeArgs, mergeResult, varsGen, varsValidate, varsMonitor, varsLightBeams, varsScrollLock>>

----------------------------------------------------------------------------
(* Properties of mergeWithDefaults, checked under SpecMerge *)

Merged == mergeResult[1]

\* C2: mergeWithDefaults returns count in [16,36], cycleDuration in [5,8] and
\* stagger in [0,1] for every input.
C2_MergedFieldsInRange ==
  mergeResult # <<>> =>
    /\ Ge(Merged.count, Num(16)) /\ Le(Merged.count, Num(36))
    /\ Ge(Merged.cycleDuration, Num(5000)) /\ Le(Merged.cycleDuration, Num(8000))
    /\ Ge(Merged.stagger, Num(0)) /\ Le(Merged.stagger, Num(1000))

\* C3: every request returned by mergeWithDefaults has
\* outerRadius > innerRadius > 0, whatever radii and viewport are passed.
C3_MergedRadiiConsistent ==
  mergeResult # <<>> =>
    /\ Gt(Merged.outerRadius, Merged.innerRadius)
    /\ Gt(Merged.innerRadius, Num(0))

\* the caller's radii as the claim C6 describes them: both supplied,
\* outer > inner, both positive
CallerRadiiUsable(userConfig) ==
  /\ userConfig.outerRadius.k # "undef"
  /\ userConfig.innerRadius.k # "undef"
  /\ Gt(userConfig.outerRadius, userConfig.innerRadius)
  /\ Gt(userConfig.outerRadius, Num(0))
  /\ Gt(userConfig.innerRadius, Num(0))

\* C6: the caller's radii are used verbatim exactly when both are supplied,
\* outer > inner and both are positive; in every other case both radii are
\* those of calculateResponsiveRadii on the sanitized viewport.
C6_RadiiVerbatimOrComputed ==
  mergeResult # <<>> =>
    LET computed == calculateResponsiveRadii(Merged.viewportWidth, Merged.viewportHeight)
    IN IF CallerRadiiUsable(mergeArgs.userConfig)
       THEN /\ Merged.outerRadius = mergeArgs.userConfig.outerRadius
            /\ Merged.innerRadius = mergeArgs.userConfig.innerRadius
       ELSE /\ Merged.outerRadius = computed.outer
            /\ Merged.innerRadius = computed.inner

\* C6 witness: the inverted pair (100, 200) at 1920 x 1080 has been replaced
\* by the computed radii of that viewport (diagonal 2202 px).
C6_Witness ==
  /\ mergeResult # <<>>
  /\ mergeArgs.userConfig.outerRadius = Num(100000)
  /\ mergeArgs.userConfig.innerRadius = Num(200000)
  /\ mergeArgs.viewportWidth = Num(1920)
  /\ mergeArgs.viewportHeight = Num(1080)
  /\ Merged.outerRadius = Num(1541400)
  /\ Merged.innerRadius = Num(330300)

\* C19: for a positive viewport the radii calculateResponsiveRadii returns
\* (the ones mergeWithDefaults takes when the caller gives no usable pair)
\* are numbers with 15 * outer = 70 * inner, and outer > inner > 0.
C19_RadiiRatio ==
  (/\ mergeResult # <<>>
   /\ ~CallerRadiiUsable(mergeArgs.userConfig)
   /\ Gt(Merged.viewportWidth, Num(0))
   /\ Gt(Merged.viewportHeight, Num(0))) =>
    /\ Merged.outerRadius.k = "num"
    /\ Merged.innerRadius.k = "num"
    /\ 15 * Merged.outerRadius.v = 70 * Merged.innerRadius.v
    /\ Gt(Merged.outerRadius, Merged.innerRadius)
    /\ Gt(Merged.innerRadius, Num(0))

\* a width or height that is missing or not positive
NonPositiveOrMissing(x) == IsNaN(x) \/ Le(x, Num(0))

\* C7: the returned viewportWidth is >= 320 and viewportHeight >= 568, and a
\* non-positive or missing width or height falls back to 1920 or 1080.
C7_ViewportSanitized ==
  mergeResult # <<>> =>
    /\ Ge(Merged.viewportWidth, Num(320))
    /\ Ge(Merged.viewportHeight, Num(568))
    /\ NonPositiveOrMissing(mergeArgs.viewportWidth) => Merged.viewportWidth = Num(1920)
    /\ NonPositiveOrMissing(mergeArgs.viewportHeight) => Merged.viewportHeight = Num(1080)

\* a fully specified request whose every field is already valid
ValidRequest(r) ==
  /\ Ge(r.count, Num(16)) /\ Le(r.count, Num(36))
  /\ Gt(r.outerRadius, r.innerRadius) /\ Gt(r.innerRadius, Num(0))
  /\ Ge(r.cycleDuration, Num(5000)) /\ Le(r.cycleDuration, Num(8000))
  /\ Ge(r.stagger, Num(0)) /\ Le(r.stagger, Num(1000))

\* C8: mergeWithDefaults is idempotent: merging its own result again, with the
\* same viewport, returns the same request; and a valid, fully specified
\* request keeps its count, radii, cycleDuration and stagger.
C8_MergeIdempotent ==
  /\ remergeResult # <<>> => remergeResult = mergeResult
  /\ (mergeResult # <<>> /\ ValidRequest(mergeArgs.userConfig)) =>
       /\ Merged.count = mergeArgs.userConfig.count
       /\ Merged.outerRadius = mergeArgs.userConfig.outerRadius
       /\ Merged.innerRadius = mergeArgs.userConfig.innerRadius
       /\ Merged.cycleDuration = mergeArgs.userConfig.cycleDuration
       /\ Merged.stagger = mergeArgs.userConfig.stagger

\* C8 witness: a request that had to be corrected (count, stagger and radii)
\* has been merged twice.
C8_Witness ==
  /\ remergeResult # <<>>
  /\ mergeArgs.userConfig.count = Num(37)
  /\ mergeArgs.userConfig.stagger = Num(-1)
  /\ mergeArgs.userConfig.outerRadius = Undefined
  /\ Merged.count = Num(36)
  /\ Merged.stagger = Num(0)
  /\ remergeResult[1].stagger = Num(0)

----------------------------------------------------------------------------
(* Calls of generateRadialBeams *)

MaxCount == 37

GenCountInputs == {NaN, Num(-3)} \cup {Num(n) : n \in 0..MaxCount}
GenRadiusInputs ==
  {NaN, Num(100000), Num(150000), Num(200000), Num(800000)}
GenCycleDurationInputs == {NaN, Num(4999), Num(6000), Num(8000), Num(8001)}
GenStaggerInputs == {NaN, Num(0), Num(150)}
\* values of Math.random(), in [0, 1)
RandomSequences == {<<0>>, <<999>>, <<500, 0, 999>>}

GenInputs ==
  [config : [count : GenCountInputs,
             outerRadius : GenRadiusInputs, innerRadius : GenRadiusInputs,
             cycleDuration : GenCycleDurationInputs, stagger : GenStaggerInputs,
             viewportWidth : {Num(1920)}, viewportHeight : {Num(1080)}],
   random : RandomSequences]

\* generateRadialBeams(config); genResult holds the returned array
GenerateCall ==
  /\ genResult = <<>>
  /\ genResult' = <<generateRadialBeams(genArgs.config, genArgs.random)>>
  /\ UNCHANGED <<genArgs, varsMerge, varsValidate, varsMonitor, varsLightBeams, varsScrollLock>>

----------------------------------------------------------------------------
(* Calls of validateBeamConfig *)

Descriptors ==
  [id : {0},
   angle : {NaN, Num(-1), Num(0), Num(359999), Num(360000)},
   startRadius : {Num(100000), Num(200000)},
   endRadius : {Num(100000), Num(200000)},
   width : {Num(-1), Num(0), Num(1)},
   baseOpacity : {Num(-1), Num(0), Num(1000), Num(1001)},
   peakOpacity : {Num(-1), Num(0), Num(1000), Num(1001)},
   blurRadius : {Num(17999), Num(18000), Num(28000), Num(28001)},
   cycleDuration : {NaN, Num(4999), Num(5000), Num(8000), Num(8001)},
   staggerDelay : {Num(0)}]

\* validateBeamConfig(descriptor)
ValidateCall ==
  /\ validResult = <<>>
  /\ validResult' = <<validateBeamConfig(descriptor)>>
  /\ UNCHANGED <<descriptor, varsMerge, varsGen, varsMonitor, varsLightBeams, varsScrollLock>>

----------------------------------------------------------------------------
(* The hook useStuckBeamDetection in a mounted component *)

MaxTime == 10000
MaxStallTime == 20000

BeamIds == {0, 1}
ConfigArrays ==
  {<<>>,
   <<[id |-> 0, cycleDuration |-> 5000]>>,
   <<[id |-> 0, cycleDuration |-> 5000], [id |-> 1, cycleDuration |-> 6000]>>}
Callbacks == {"undefined", "handler"}
Transforms == {NoElement, TransformNone, Matrix(1005), Matrix(1020)}

\* time passes (in steps of the timer's period), up to limit
AdvanceTo(limit) ==
  /\ now < limit
  /\ now' = now + 2000
  /\ UNCHANGED <<beamConfigs, enabled, onBeamStuck, beamPositions, intervals,
                 intervalId, transforms, stuckCalls, stuckErrors, lastTick,
                 highestResetCount, stats,
                 varsMerge, varsGen, varsValidate, varsLightBeams, varsScrollLock>>

Advance == AdvanceTo(MaxTime)

\* the timer set by setInterval(checkForStuckBeams, 2000) fires, on time or
\* late, and checkForStuckBeams finds the elements with the transforms dom
TickWith(timer, dom) ==
  /\ now >= timer.due
  /\ LET st == CheckConfigs([positions |-> beamPositions, calls |-> <<>>, errors |-> <<>>],
                            timer.configs, timer.callback, now, dom)
         next == [timer EXCEPT !.due = now + 2000]
     IN /\ beamPositions' = st.positions
        /\ stuckCalls' = st.calls
        /\ stuckErrors' = st.errors
        /\ intervals' = (intervals \ {timer}) \cup {next}
        /\ intervalId' = IF intervalId = {timer} THEN {next} ELSE intervalId
        /\ highestResetCount' =
             [b \in BeamIds |->
                IF b \in DOMAIN st.positions
                   /\ st.positions[b].resetCount > highestResetCount[b]
                THEN st.positions[b].resetCount ELSE highestResetCount[b]]
  /\ transforms' = dom
  /\ lastTick' = now
  /\ UNCHANGED <<beamConfigs, enabled, onBeamStuck, now, stats,
                 varsMerge, varsGen, varsValidate, varsLightBeams, varsScrollLock>>

\* a tick, whatever the animation has done to the elements since the last one
Tick == \E timer \in intervals, dom \in [BeamIds -> Transforms] : TickWith(timer, dom)

\* a tick that finds every element as the last tick found it
TickStalled == \E timer \in intervals : TickWith(timer, transforms)

\* (a changed Render: the cleanup does not clear the previous timer)
RenderKeepingTimer ==
  \E configs \in ConfigArrays, en \in BOOLEAN, callback \in Callbacks :
    /\ beamConfigs' = configs
    /\ enabled' = en
    /\ onBeamStuck' = callback
    /\ LET created == EffectIntervals(configs, en, callback, now)
       IN /\ intervals' = intervals \cup created
          /\ intervalId' = created
    /\ UNCHANGED <<beamPositions, now, transforms, stuckCalls, stuckErrors, lastTick,
                   highestResetCount, stats,
                   varsMerge, varsGen, varsValidate, varsLightBeams, varsScrollLock>>

\* (a changed Render: the tracking map is cleared when no timer is set)
RenderClearingMap ==
  \E configs \in ConfigArrays, en \in BOOLEAN, callback \in Callbacks :
    /\ beamConfigs' = configs
    /\ enabled' = en
    /\ onBeamStuck' = callback
    /\ LET created == EffectIntervals(configs, en, callback, now)
       IN /\ intervals' = (intervals \ intervalId) \cup created
          /\ intervalId' = created
          /\ beamPositions' = IF created = {} THEN <<>> ELSE beamPositions
    /\ UNCHANGED <<now, transforms, stuckCalls, stuckErrors, lastTick,
                   highestResetCount, stats,
                   varsMerge, varsGen, varsValidate, varsLightBeams, varsScrollLock>>

\* a render with a changed dependency (a new array or callback of the same
\* content is a change too): the cleanup of the previous effect
\* (clearInterval, line 156), then the effect again
Render ==
  \E configs \in ConfigArrays, en \in BOOLEAN, callback \in Callbacks :
    /\ beamConfigs' = configs
    /\ enabled' = en
    /\ onBeamStuck' = callback
    /\ LET created == EffectIntervals(configs, en, callback, now)
       IN /\ intervals' = (intervals \ intervalId) \cup created
          /\ intervalId' = created
    /\ UNCHANGED <<beamPositions, now, transforms, stuckCalls, stuckErrors, lastTick,
                   highestResetCount, stats,
                   varsMerge, varsGen, varsValidate, varsLightBeams, varsScrollLock>>

\* resetBeamTracking(beamId), lines 166-168
ResetBeam(beamId) ==
  /\ beamPositions' = MapDelete(beamPositions, beamId)
  /\ UNCHANGED <<beamConfigs, enabled, onBeamStuck, intervals, intervalId, now,
                 transforms, stuckCalls, stuckErrors, lastTick, highestResetCount, stats,
                 varsMerge, varsGen, varsValidate, varsLightBeams, varsScrollLock>>

\* getStats()
GetStats ==
  /\ stats = <<>>
  /\ stats' = <<getStats(beamConfigs, beamPositions)>>
  /\ UNCHANGED <<beamConfigs, enabled, onBeamStuck, beamPositions, intervals,
                 intervalId, now, transforms, stuckCalls, stuckErrors, lastTick,
                 highestResetCount,
                 varsMerge, varsGen, varsValidate, varsLightBeams, varsScrollLock>>

\* resetBeamTracking called by the component, with any beam id
ResetBeamTracking == \E beamId \in BeamIds : ResetBeam(beamId)

----------------------------------------------------------------------------
(* useBodyScrollLock.ts: components using the hook on one page *)

MaxInstances == 3

Instances == 1..MaxInstances
\* the overflow the page's style sheet gives document.body
PageOverflows == {"visible", "auto", "scroll", "clip"}

NotLocked == [locked |-> FALSE, originalStyle |-> ""]
RestScrollLocks == [i \in Instances |-> NotLocked]

\* the effect of lines 8-13 for instance i, the body's computed overflow
\* being overflow: what the instance's cleanup will hold
EffectLock(locks, i, overflow) ==
  [locks EXCEPT ![i] = [locked |-> TRUE, originalStyle |-> overflow]]

\* instance i renders with isLocked true (on mount or later): the effect runs
Lock(i) ==
  /\ ~scrollLocks[i].locked
  /\ scrollLocks' = EffectLock(scrollLocks, i, bodyOverflow)
  /\ bodyOverflow' = "hidden"
  /\ UNCHANGED <<pageOverflow, varsMerge, varsGen, varsValidate, varsMonitor,
                 varsLightBeams>>

\* instance i renders with isLocked false, or unmounts: the cleanup of
\* lines 14-16 runs
Unlock(i) ==
  /\ scrollLocks[i].locked
  /\ bodyOverflow' = scrollLocks[i].originalStyle
  /\ scrollLocks' = [scrollLocks EXCEPT ![i] = NotLocked]
  /\ UNCHANGED <<pageOverflow, varsMerge, varsGen, varsValidate, varsMonitor,
                 varsLightBeams>>

LockSome == \E i \in Instances : Lock(i)
UnlockSome == \E i \in Instances : Unlock(i)

----------------------------------------------------------------------------
(* Specifications: one per unit, the other units' variables at rest *)

RestMergeArgs ==
  [userConfig |-> [count |-> Undefined, outerRadius |-> Undefined,
                   innerRadius |-> Undefined, cycleDuration |-> Undefined,
                   stagger |-> Undefined, viewportWidth |-> Undefined,
                   viewportHeight |-> Undefined],
   viewportWidth |-> Num(1920), viewportHeight |-> Num(1080)]
RestGenArgs ==
  [config |-> mergeWithDefaults(RestMergeArgs.userConfig, Num(1920), Num(1080)),
   random |-> <<0>>]
RestDescriptor == MakeBeam(RestGenArgs.config, <<0>>, 0)
RestLightBeamsArgs ==
  [hasWindow |-> TRUE,
   beamCount |-> Undefined, enableResponsiveBeams |-> FALSE,
   viewportType |-> "desktop",
   responsiveRadii |-> [outer |-> Num(800000), inner |-> Num(150000)],
   cycleDuration |-> Num(6000), staggerAmount |-> Num(150),
   innerWidth |-> Num(1920), innerHeight |-> Num(1080), random |-> <<0>>]

\* the stuck-beam monitor: the first render and its effect, then the timer,
\* the clock, the page and the component using the hook
Init ==
  /\ beamConfigs \in ConfigArrays
  /\ enabled \in BOOLEAN
  /\ onBeamStuck \in Callbacks
  /\ beamPositions = <<>>
  /\ now = 0
  /\ intervals = EffectIntervals(beamConfigs, enabled, onBeamStuck, 0)
  /\ intervalId = intervals
  /\ transforms = [b \in BeamIds |-> TransformNone]
  /\ stuckCalls = <<>> /\ stuckErrors = <<>>
  /\ lastTick = -1
  /\ highestResetCount = [b \in BeamIds |-> 0] /\ stats = <<>>
  /\ lightBeamsArgs = RestLightBeamsArgs /\ lightBeamsResult = <<>>
  /\ bodyOverflow = "visible" /\ scrollLocks = RestScrollLocks
  /\ pageOverflow = "visible"
  /\ mergeArgs = RestMergeArgs /\ mergeResult = <<>> /\ remergeResult = <<>>
  /\ genArgs = RestGenArgs /\ genResult = <<>>
  /\ descriptor = RestDescriptor /\ validResult = <<>>

Next ==
  \/ Advance
  \/ Tick
  \/ Render
  \/ ResetBeamTracking

Spec == Init /\ [][Next]_vars

\* the monitor left enabled on beams whose elements never change: the
\* arguments of the one render and the transforms are any, then only the
\* clock and the timer act
InitStall ==
  /\ beamConfigs \in ConfigArrays \ {<<>>}
  /\ enabled = TRUE
  /\ onBeamStuck \in Callbacks
  /\ beamPositions = <<>>
  /\ now = 0
  /\ intervals = EffectIntervals(beamConfigs, enabled, onBeamStuck, 0)
  /\ intervalId = intervals
  /\ transforms \in [BeamIds -> Transforms]
  /\ stuckCalls = <<>> /\ stuckErrors = <<>>
  /\ lastTick = -1
  /\ highestResetCount = [b \in BeamIds |-> 0] /\ stats = <<>>
  /\ lightBeamsArgs = RestLightBeamsArgs /\ lightBeamsResult = <<>>
  /\ bodyOverflow = "visible" /\ scrollLocks = RestScrollLocks
  /\ pageOverflow = "visible"
  /\ mergeArgs = RestMergeArgs /\ mergeResult = <<>> /\ remergeResult = <<>>
  /\ genArgs = RestGenArgs /\ genResult = <<>>
  /\ descriptor = RestDescriptor /\ validResult = <<>>

NextStall ==
  \/ AdvanceTo(MaxStallTime)
  \/ TickStalled

SpecStall == InitStall /\ [][NextStall]_vars

\* the monitor left enabled on beams whose elements never change, with a
\* recovery callback that calls resetBeamTracking(beamId) of the same hook
InitRecover ==
  /\ beamConfigs \in ConfigArrays \ {<<>>}
  /\ enabled = TRUE
  /\ onBeamStuck = "resetsTracking"
  /\ beamPositions = <<>>
  /\ now = 0
  /\ intervals = EffectIntervals(beamConfigs, enabled, onBeamStuck, 0)
  /\ intervalId = intervals
  /\ transforms \in [BeamIds -> Transforms]
  /\ stuckCalls = <<>> /\ stuckErrors = <<>>
  /\ lastTick = -1
  /\ highestResetCount = [b \in BeamIds |-> 0] /\ stats = <<>>
  /\ lightBeamsArgs = RestLightBeamsArgs /\ lightBeamsResult = <<>>
  /\ bodyOverflow = "visible" /\ scrollLocks = RestScrollLocks
  /\ pageOverflow = "visible"
  /\ mergeArgs = RestMergeArgs /\ mergeResult = <<>> /\ remergeResult = <<>>
  /\ genArgs = RestGenArgs /\ genResult = <<>>
  /\ descriptor = RestDescriptor /\ validResult = <<>>

NextRecover ==
  \/ AdvanceTo(MaxStallTime)
  \/ TickStalled

SpecRecover == InitRecover /\ [][NextRecover]_vars

\* getStats called on a monitor that has run for 40 s: the beams that have
\* an entry moved on the last tick, after any number of recoveries, and the
\* component has rendered since, with any array
MaxResets == 3

TrackingMaps ==
  UNION {[ids -> [lastScale : {1020}, timestamp : {40000}, resetCount : 0..MaxResets]] :
           ids \in SUBSET BeamIds}

InitStats ==
  /\ beamConfigs \in ConfigArrays
  /\ enabled \in BOOLEAN
  /\ onBeamStuck \in Callbacks
  /\ beamPositions \in TrackingMaps
  /\ now = 40000
  /\ intervals = EffectIntervals(beamConfigs, enabled, onBeamStuck, 40000)
  /\ intervalId = intervals
  /\ transforms = [b \in BeamIds |-> Matrix(1020)]
  /\ stuckCalls = <<>> /\ stuckErrors = <<>>
  /\ lastTick = 40000
  /\ highestResetCount =
       [b \in BeamIds |-> IF b \in DOMAIN beamPositions
                          THEN beamPositions[b].resetCount ELSE 0]
  /\ stats = <<>>
  /\ mergeArgs = RestMergeArgs /\ mergeResult = <<>> /\ remergeResult = <<>>
  /\ genArgs = RestGenArgs /\ genResult = <<>>
  /\ descriptor = RestDescriptor /\ validResult = <<>>
  /\ lightBeamsArgs = RestLightBeamsArgs /\ lightBeamsResult = <<>>
  /\ bodyOverflow = "visible" /\ scrollLocks = RestScrollLocks
  /\ pageOverflow = "visible"

NextStats == GetStats

SpecStats == InitStats /\ [][NextStats]_vars

\* the memo radialBeamConfigs of LightBeams, computed from props, state and
\* window of every class
LightBeamsInputs ==
  [hasWindow : BOOLEAN,
   beamCount : {Undefined, NaN, Num(24)},
   enableResponsiveBeams : BOOLEAN,
   viewportType : {"mobile", "tablet", "desktop"},
   responsiveRadii : {[outer |-> Num(800000), inner |-> Num(150000)],
                      [outer |-> Num(100000), inner |-> Num(200000)]},
   cycleDuration : {NaN, Num(6000)},
   staggerAmount : {Num(150)},
   innerWidth : {Num(1920), Infinity},
   innerHeight : {Num(1080)},
   random : {<<0>>, <<999>>}]

\* React computes the memo
ComputeRadialBeamConfigs ==
  /\ lightBeamsResult = <<>>
  /\ lightBeamsResult' = <<radialBeamConfigs(lightBeamsArgs)>>
  /\ UNCHANGED <<lightBeamsArgs, varsMerge, varsGen, varsValidate, varsMonitor,
                 varsScrollLock>>

InitLightBeams ==
  /\ lightBeamsArgs \in LightBeamsInputs
  /\ lightBeamsResult = <<>>
  /\ mergeArgs = RestMergeArgs /\ mergeResult = <<>> /\ remergeResult = <<>>
  /\ genArgs = RestGenArgs /\ genResult = <<>>
  /\ descriptor = RestDescriptor /\ validResult = <<>>
  /\ beamConfigs = <<>> /\ enabled = FALSE /\ onBeamStuck = "undefined"
  /\ beamPositions = <<>> /\ intervals = {} /\ intervalId = {} /\ now = 0
  /\ transforms = [b \in BeamIds |-> NoElement] /\ stuckCalls = <<>> /\ stuckErrors = <<>> /\ lastTick = -1
  /\ highestResetCount = [b \in BeamIds |-> 0] /\ stats = <<>>
  /\ bodyOverflow = "visible" /\ scrollLocks = RestScrollLocks
  /\ pageOverflow = "visible"

NextLightBeams == ComputeRadialBeamConfigs

SpecLightBeams == InitLightBeams /\ [][NextLightBeams]_vars

\* modals using useBodyScrollLock that open and close in any order
InitScrollLock ==
  /\ pageOverflow \in PageOverflows
  /\ bodyOverflow = pageOverflow
  /\ scrollLocks = RestScrollLocks
  /\ mergeArgs = RestMergeArgs /\ mergeResult = <<>> /\ remergeResult = <<>>
  /\ genArgs = RestGenArgs /\ genResult = <<>>
  /\ descriptor = RestDescriptor /\ validResult = <<>>
  /\ beamConfigs = <<>> /\ enabled = FALSE /\ onBeamStuck = "undefined"
  /\ beamPositions = <<>> /\ intervals = {} /\ intervalId = {} /\ now = 0
  /\ transforms = [b \in BeamIds |-> NoElement] /\ stuckCalls = <<>> /\ stuckErrors = <<>> /\ lastTick = -1
  /\ highestResetCount = [b \in BeamIds |-> 0] /\ stats = <<>>
  /\ lightBeamsArgs = RestLightBeamsArgs /\ lightBeamsResult = <<>>

NextScrollLock ==
  \/ LockSome
  \/ UnlockSome

SpecScrollLock == InitScrollLock /\ [][NextScrollLock]_vars

\* mergeWithDefaults, called on arguments of every class and on its own result
InitMerge ==
  /\ mergeArgs \in MergeInputs
  /\ mergeResult = <<>>
  /\ remergeResult = <<>>
  /\ genArgs = RestGenArgs /\ genResult = <<>>
  /\ descriptor = RestDescriptor /\ validResult = <<>>
  /\ beamConfigs = <<>> /\ enabled = FALSE /\ onBeamStuck = "undefined"
  /\ beamPositions = <<>> /\ intervals = {} /\ intervalId = {} /\ now = 0
  /\ transforms = [b \in BeamIds |-> NoElement] /\ stuckCalls = <<>> /\ stuckErrors = <<>> /\ lastTick = -1
  /\ highestResetCount = [b \in BeamIds |-> 0] /\ stats = <<>>
  /\ lightBeamsArgs = RestLightBeamsArgs /\ lightBeamsResult = <<>>
  /\ bodyOverflow = "visible" /\ scrollLocks = RestScrollLocks
  /\ pageOverflow = "visible"

NextMerge ==
  \/ MergeCall
  \/ RemergeCall

SpecMerge == InitMerge /\ [][NextMerge]_vars

\* generateRadialBeams
InitGen ==
  /\ genArgs \in GenInputs
  /\ genResult = <<>>
  /\ mergeArgs = RestMergeArgs /\ mergeResult = <<>> /\ remergeResult = <<>>
  /\ descriptor = RestDescriptor /\ validResult = <<>>
  /\ beamConfigs = <<>> /\ enabled = FALSE /\ onBeamStuck = "undefined"
  /\ beamPositions = <<>> /\ intervals = {} /\ intervalId = {} /\ now = 0
  /\ transforms = [b \in BeamIds |-> NoElement] /\ stuckCalls = <<>> /\ stuckErrors = <<>> /\ lastTick = -1
  /\ highestResetCount = [b \in BeamIds |-> 0] /\ stats = <<>>
  /\ lightBeamsArgs = RestLightBeamsArgs /\ lightBeamsResult = <<>>
  /\ bodyOverflow = "visible" /\ scrollLocks = RestScrollLocks
  /\ pageOverflow = "visible"

NextGen == GenerateCall

SpecGen == InitGen /\ [][NextGen]_vars

\* validateBeamConfig
InitValidate ==
  /\ descriptor \in Descriptors
  /\ validResult = <<>>
  /\ mergeArgs = RestMergeArgs /\ mergeResult = <<>> /\ remergeResult = <<>>
  /\ genArgs = RestGenArgs /\ genResult = <<>>
  /\ beamConfigs = <<>> /\ enabled = FALSE /\ onBeamStuck = "undefined"
  /\ beamPositions = <<>> /\ intervals = {} /\ intervalId = {} /\ now = 0
  /\ transforms = [b \in BeamIds |-> NoElement] /\ stuckCalls = <<>> /\ stuckErrors = <<>> /\ lastTick = -1
  /\ highestResetCount = [b \in BeamIds |-> 0] /\ stats = <<>>
  /\ lightBeamsArgs = RestLightBeamsArgs /\ lightBeamsResult = <<>>
  /\ bodyOverflow = "visible" /\ scrollLocks = RestScrollLocks
  /\ pageOverflow = "visible"

NextValidate == ValidateCall

SpecValidate == InitValidate /\ [][NextValidate]_vars

----------------------------------------------------------------------------
(* Properties of generateRadialBeams, checked under SpecGen *)

Generated == genResult[1]

\* C1: for count in [16,36] and outerRadius > innerRadius > 0 the result has
\* at most count descriptors, each passes validateBeamConfig, the descriptor
\* of loop index i has angle i * (360 / count), and indexes ascend.
C1_GenerateValidEvenAngles ==
  (/\ genResult # <<>>
   /\ Ge(genArgs.config.count, Num(16)) /\ Le(genArgs.config.count, Num(36))
   /\ Gt(genArgs.config.outerRadius, genArgs.config.innerRadius)
   /\ Gt(genArgs.config.innerRadius, Num(0))) =>
    /\ Len(Generated) <= genArgs.config.count.v
    /\ \A k \in 1..Len(Generated) :
         /\ validateBeamConfig(Generated[k])
         /\ Generated[k].angle = Num(Generated[k].id * (360000 \div genArgs.config.count.v))
    /\ \A k \in 1..(Len(Generated) - 1) :
         /\ Generated[k].id < Generated[k + 1].id
         /\ Lt(Generated[k].angle, Generated[k + 1].angle)

\* C1 witness: 36 beams between radii 800 and 150; the last one is at 350 degrees.
C1_Witness ==
  /\ genResult # <<>>
  /\ genArgs.config.count = Num(36)
  /\ genArgs.config.outerRadius = Num(800000)
  /\ genArgs.config.innerRadius = Num(150000)
  /\ Len(Generated) = 36
  /\ Generated[36].angle = Num(350000)

\* C5: with outerRadius <= innerRadius the call returns the empty sequence,
\* whatever count, cycleDuration and stagger are.
C5_InvertedRadiiGiveEmpty ==
  (genResult # <<>> /\ Le(genArgs.config.outerRadius, genArgs.config.innerRadius)) =>
    Generated = <<>>

\* C5 witness: the call with radii 100 and 200 and otherwise valid fields has
\* returned, and returned nothing.
C5_Witness ==
  /\ genResult = << <<>> >>
  /\ genArgs.config.outerRadius = Num(100000)
  /\ genArgs.config.innerRadius = Num(200000)
  /\ genArgs.config.count = Num(16)
  /\ genArgs.config.cycleDuration = Num(6000)

\* C10: with outerRadius > innerRadius and cycleDuration in [5,8] the call
\* returns exactly count descriptors (count a natural number), the one at
\* index i with startRadius = outerRadius, endRadius = innerRadius, the
\* request's cycleDuration and staggerDelay = i * stagger.
C10_GenerateExactlyCount ==
  (/\ genResult # <<>>
   /\ Gt(genArgs.config.outerRadius, genArgs.config.innerRadius)
   /\ Ge(genArgs.config.cycleDuration, Num(5000))
   /\ Le(genArgs.config.cycleDuration, Num(8000))
   /\ Ge(genArgs.config.count, Num(0))) =>
    /\ Len(Generated) = genArgs.config.count.v
    /\ \A k \in 1..Len(Generated) :
         /\ Generated[k].id = k - 1
         /\ Generated[k].startRadius = genArgs.config.outerRadius
         /\ Generated[k].endRadius = genArgs.config.innerRadius
         /\ Generated[k].cycleDuration = genArgs.config.cycleDuration
         /\ Generated[k].staggerDelay =
              IF genArgs.config.stagger.k = "num"
              THEN Num((k - 1) * genArgs.config.stagger.v) ELSE NaN

\* C10 witness: the request {count 16, radii 800 and 150, cycleDuration 6,
\* stagger 0.15} has given 16 descriptors at 0, 22.5, ..., 337.5 degrees
\* with delays index * 0.15.
C10_Witness ==
  /\ genResult # <<>>
  /\ genArgs.config.count = Num(16)
  /\ genArgs.config.outerRadius = Num(800000)
  /\ genArgs.config.innerRadius = Num(150000)
  /\ genArgs.config.cycleDuration = Num(6000)
  /\ genArgs.config.stagger = Num(150)
  /\ Len(Generated) = 16
  /\ \A k \in 1..16 :
       /\ Generated[k].angle = Num((k - 1) * 22500)
       /\ Generated[k].staggerDelay = Num((k - 1) * 150)
       /\ Generated[k].startRadius = Num(800000)
       /\ Generated[k].endRadius = Num(150000)
       /\ Generated[k].cycleDuration = Num(6000)

\* C18: a count outside [16,36] is not clamped: with outerRadius >
\* innerRadius and cycleDuration in [5,8], a call with a positive count below
\* 16 or above 36 returns exactly count descriptors, each 360 / count
\* degrees after the one before, the first at 0.
C18_CountNotClamped ==
  (/\ genResult # <<>>
   /\ Gt(genArgs.config.outerRadius, genArgs.config.innerRadius)
   /\ Ge(genArgs.config.cycleDuration, Num(5000))
   /\ Le(genArgs.config.cycleDuration, Num(8000))
   /\ Gt(genArgs.config.count, Num(0))
   /\ (Lt(genArgs.config.count, Num(16)) \/ Gt(genArgs.config.count, Num(36)))) =>
    LET angleStep == 360000 \div genArgs.config.count.v
    IN /\ Len(Generated) = genArgs.config.count.v
       /\ Generated[1].angle = Num(0)
       /\ \A k \in 1..(Len(Generated) - 1) :
            Generated[k + 1].angle.v - Generated[k].angle.v = angleStep

\* C18 witness: a call with count 8 has returned 8 descriptors, 45 degrees
\* apart, and a call with count 37 has returned 37.
C18_Witness ==
  /\ genResult # <<>>
  /\ \/ /\ genArgs.config.count = Num(8)
        /\ Len(Generated) = 8
        /\ Generated[8].angle = Num(315000)
     \/ /\ genArgs.config.count = Num(37)
        /\ Len(Generated) = 37

\* C25: every returned descriptor has width in [80,120], baseOpacity in
\* [0.3,0.4], peakOpacity in [0.4,0.55] and blurRadius in [18,28], whatever
\* Math.random() returned, hence peakOpacity >= baseOpacity.
C25_RandomizedFieldsInRange ==
  genResult # <<>> =>
    \A k \in 1..Len(Generated) :
      /\ Ge(Generated[k].width, Num(80000)) /\ Le(Generated[k].width, Num(120000))
      /\ Ge(Generated[k].baseOpacity, Num(300)) /\ Le(Generated[k].baseOpacity, Num(400))
      /\ Ge(Generated[k].peakOpacity, Num(400)) /\ Le(Generated[k].peakOpacity, Num(550))
      /\ Ge(Generated[k].blurRadius, Num(18000)) /\ Le(Generated[k].blurRadius, Num(28000))
      /\ Ge(Generated[k].peakOpacity, Generated[k].baseOpacity)

\* C25 witness: a call has returned descriptors drawn with Math.random() at
\* 0.5, 0 and 0.999 in turn: every field has been drawn at both ends of its
\* range, the highest base opacity (second descriptor) and the lowest peak
\* opacity (third) among them.
C25_Witness ==
  /\ genResult # <<>>
  /\ genArgs.random = <<500, 0, 999>>
  /\ Len(Generated) >= 3
  /\ Generated[1].width = Num(100000)
  /\ Generated[1].baseOpacity = Num(300)
  /\ Generated[1].peakOpacity = Num(549)
  /\ Generated[2].width = Num(80000)
  /\ Generated[2].baseOpacity = Num(399)
  /\ Generated[2].blurRadius = Num(18000)
  /\ Generated[3].width = Num(119960)
  /\ Generated[3].peakOpacity = Num(400)
  /\ Generated[3].blurRadius = Num(27990)

\* C27: the result has count descriptors when outerRadius > innerRadius,
\* 5 <= cycleDuration <= 8 and count >= 1, and is empty otherwise.
C27_AllOrNothing ==
  genResult # <<>> =>
    IF /\ Gt(genArgs.config.outerRadius, genArgs.config.innerRadius)
       /\ Ge(genArgs.config.cycleDuration, Num(5000))
       /\ Le(genArgs.config.cycleDuration, Num(8000))
       /\ Ge(genArgs.config.count, Num(1))
    THEN Len(Generated) = genArgs.config.count.v
    ELSE Len(Generated) = 0

----------------------------------------------------------------------------
(* Properties of validateBeamConfig, checked under SpecValidate *)

\* the six checks as conditions on the descriptor
AllChecksHold(config) ==
  /\ Ge(config.angle, Num(0)) /\ Lt(config.angle, Num(360000))
  /\ Gt(config.startRadius, config.endRadius)
  /\ Ge(config.blurRadius, Num(18000)) /\ Le(config.blurRadius, Num(28000))
  /\ Ge(config.baseOpacity, Num(0)) /\ Le(config.baseOpacity, Num(1000))
  /\ Ge(config.peakOpacity, Num(0)) /\ Le(config.peakOpacity, Num(1000))
  /\ Ge(config.cycleDuration, Num(5000)) /\ Le(config.cycleDuration, Num(8000))
  /\ Gt(config.width, Num(0))

\* C9: validateBeamConfig returns true exactly when all six checks hold.
C9_ValidIffAllChecksHold ==
  validResult # <<>> => (validResult[1] <=> AllChecksHold(descriptor))

----------------------------------------------------------------------------
(* Properties of the monitor on beams that do not move, checked under SpecStall *)

Configured(b) == \E k \in 1..Len(beamConfigs) : beamConfigs[k].id = b
CycleDurationMs(b) ==
  beamConfigs[CHOOSE k \in 1..Len(beamConfigs) : beamConfigs[k].id = b].cycleDuration
CalledWith(calls, b) == \E k \in 1..Len(calls) : calls[k] = b

\* this step is a run of checkForStuckBeams
TickStep == lastTick' = now /\ lastTick # now

\* this step is a run of checkForStuckBeams that finds b, a beam of the
\* array, tracked, with its element present and at the recorded scale
TickOnStalled(b) ==
  /\ TickStep
  /\ Configured(b)
  /\ b \in DOMAIN beamPositions
  /\ transforms'[b] # NoElement
  /\ MathAbs(CurrentScale(transforms'[b]) - beamPositions[b].lastScale) <= 10

\* C4 as stated: on a tick that finds the beam unmoved for cycleDuration
\* (or longer) since its timestamp, and on no other tick, the callback is
\* called with its id.
C4_CallbackOncePerCycleDuration ==
  [][\A b \in BeamIds :
       (TickOnStalled(b) /\ onBeamStuck = "handler") =>
         (now - beamPositions[b].timestamp >= CycleDurationMs(b)
            <=> CalledWith(stuckCalls', b))]_vars

\* C4 as amended: on a tick that finds the beam unmoved, the callback (if one
\* is given) is called with its id, once, exactly when the time since the
\* entry's timestamp is strictly greater than cycleDuration; resetCount then
\* increases by exactly 1 and the timestamp restarts, otherwise both stay;
\* no step removes the entry or decreases resetCount.
C4_CallbackWhenLongerThanCycle ==
  [][\A b \in BeamIds :
       /\ TickOnStalled(b) =>
            LET stuck == now - beamPositions[b].timestamp > CycleDurationMs(b)
            IN /\ Len(SelectSeq(stuckCalls', LAMBDA c : c = b)) =
                    IF stuck /\ onBeamStuck = "handler" THEN 1 ELSE 0
               /\ beamPositions'[b].resetCount =
                    beamPositions[b].resetCount + (IF stuck THEN 1 ELSE 0)
               /\ beamPositions'[b].timestamp =
                    IF stuck THEN now ELSE beamPositions[b].timestamp
       /\ b \in DOMAIN beamPositions =>
            /\ b \in DOMAIN beamPositions'
            /\ beamPositions'[b].resetCount >= beamPositions[b].resetCount
       /\ ~TickStep => stuckCalls' = stuckCalls]_vars

\* C4 witness: beam 0 (cycleDuration 5 s) has not moved and has had its
\* callback twice, the second call on the last tick.
C4_Witness ==
  /\ onBeamStuck = "handler"
  /\ 0 \in DOMAIN beamPositions
  /\ beamPositions[0].resetCount = 2
  /\ CalledWith(stuckCalls, 0)
  /\ lastTick = beamPositions[0].timestamp

\* C24: on a tick that finds a tracked beam unmoved, the persistent-issue
\* error is logged for it (once) exactly when the beam is declared stuck and
\* that brings its resetCount to 3 or more; with or without the error the
\* entry becomes {sampled scale, tick time, resetCount + 1} and the callback,
\* if given, is called once; no other step logs anything.
C24_PersistentIssueFromThirdReset ==
  [][/\ \A b \in BeamIds :
          TickOnStalled(b) =>
            LET stuck == now - beamPositions[b].timestamp > CycleDurationMs(b)
            IN /\ Len(SelectSeq(stuckErrors', LAMBDA e : e = b)) =
                    IF stuck /\ beamPositions[b].resetCount + 1 >= 3 THEN 1 ELSE 0
               /\ stuck =>
                    /\ beamPositions'[b] =
                         [lastScale |-> CurrentScale(transforms'[b]),
                          timestamp |-> now,
                          resetCount |-> beamPositions[b].resetCount + 1]
                    /\ Len(SelectSeq(stuckCalls', LAMBDA c : c = b)) =
                         IF onBeamStuck = "handler" THEN 1 ELSE 0
     /\ ~TickStep => stuckErrors' = stuckErrors]_vars

\* C24 witness: beam 0 has just been declared stuck for the third time, the
\* error was logged for it and the callback called; beam 1, at its second
\* reset, has had no error yet.
C24_Witness ==
  /\ onBeamStuck = "handler"
  /\ DOMAIN beamPositions = {0, 1}
  /\ beamPositions[0].resetCount = 3
  /\ beamPositions[0].timestamp = lastTick
  /\ beamPositions[1].resetCount = 2
  /\ stuckErrors = <<0>>
  /\ stuckCalls = <<0>>

----------------------------------------------------------------------------
(* Properties of the monitor in a component that renders, ticks and resets, *)
(* checked under Spec                                                       *)

\* the ids of the array passed on the last render
ConfiguredIds == {beamConfigs[k].id : k \in 1..Len(beamConfigs)}

\* C11: a tracking entry exists only for ids of the current configuration
\* array: once the array no longer contains an id (or is empty), that id has
\* no entry.
C11_TrackedOnlyConfigured == DOMAIN beamPositions \subseteq ConfiguredIds

\* C12 as stated: whatever ticks, renders and resetBeamTracking calls have
\* happened, an entry never carries a smaller resetCount than an earlier
\* entry of the same id did.
C12_ResetCountNeverSmaller ==
  \A b \in DOMAIN beamPositions :
    beamPositions[b].resetCount >= highestResetCount[b]

\* C12 as amended: while the entry of an id exists its resetCount never
\* decreases; no tick and no render removes an entry, only
\* resetBeamTracking(id) does; and an entry that is created starts at
\* resetCount 0.
C12_ResetCountMonotoneWhileTracked ==
  [][\A b \in BeamIds :
       /\ (b \in DOMAIN beamPositions /\ b \in DOMAIN beamPositions') =>
            beamPositions'[b].resetCount >= beamPositions[b].resetCount
       /\ (b \in DOMAIN beamPositions /\ b \notin DOMAIN beamPositions') =>
            ResetBeam(b)
       /\ (b \notin DOMAIN beamPositions /\ b \in DOMAIN beamPositions') =>
            beamPositions'[b].resetCount = 0]_vars

\* C12 witness: beam 0 was declared stuck (resetCount 1), its entry was
\* deleted by resetBeamTracking and the next tick that saw it has created a
\* new entry, at resetCount 0.
C12_Witness ==
  /\ 0 \in DOMAIN beamPositions
  /\ beamPositions[0].resetCount = 0
  /\ beamPositions[0].timestamp = lastTick
  /\ highestResetCount[0] = 1

\* C13: checkForStuckBeams runs (and so onBeamStuck is called) only while
\* enabled is true and the array is not empty: a render with enabled false
\* or an empty array leaves no timer set, and no step but a tick calls the
\* callback.
C13_TicksOnlyWhileEnabled ==
  [][/\ TickStep => (enabled /\ Len(beamConfigs) > 0)
     /\ ~TickStep => stuckCalls' = stuckCalls
     /\ (~enabled' \/ Len(beamConfigs') = 0) => intervals' = {}]_vars

\* C13 witness: the monitor has run, was then switched off, and two periods
\* have passed without a tick; no timer is set.
C13_Witness ==
  /\ ~enabled
  /\ Len(beamConfigs) > 0
  /\ intervals = {}
  /\ lastTick >= 2000
  /\ now >= lastTick + 4000

\* the number of times onBeamStuck was called with b
TimesCalledWith(calls, b) == Len(SelectSeq(calls, LAMBDA c : c = b))

\* C14 as stated: on a tick that finds a tracked beam within 0.01 of its
\* lastScale, if the time since its timestamp is greater than cycleDuration
\* the callback is called exactly once with its id, resetCount becomes the
\* previous value plus 1, timestamp the tick's time and lastScale keeps the
\* value it had; otherwise the callback is not called.
C14_StuckKeepsLastScale ==
  [][\A b \in BeamIds :
       (TickOnStalled(b) /\ onBeamStuck = "handler") =>
         IF now - beamPositions[b].timestamp > CycleDurationMs(b)
         THEN /\ TimesCalledWith(stuckCalls', b) = 1
              /\ beamPositions'[b].resetCount = beamPositions[b].resetCount + 1
              /\ beamPositions'[b].timestamp = now
              /\ beamPositions'[b].lastScale = beamPositions[b].lastScale
         ELSE TimesCalledWith(stuckCalls', b) = 0]_vars

\* C14 as amended: as stated, but lastScale becomes the scale sampled on the
\* tick (within 0.01 of the one it had); and when the time is not greater
\* than cycleDuration the entry is left as it was.
C14_StuckRecordsSampledScale ==
  [][\A b \in BeamIds :
       (TickOnStalled(b) /\ onBeamStuck = "handler") =>
         IF now - beamPositions[b].timestamp > CycleDurationMs(b)
         THEN /\ TimesCalledWith(stuckCalls', b) = 1
              /\ beamPositions'[b] =
                   [lastScale |-> CurrentScale(transforms'[b]),
                    timestamp |-> now,
                    resetCount |-> beamPositions[b].resetCount + 1]
         ELSE /\ TimesCalledWith(stuckCalls', b) = 0
              /\ beamPositions'[b] = beamPositions[b]]_vars

\* C14 witness: the last tick has declared beam 0 stuck at the sampled scale
\* 1.005 and called the callback with its id.
C14_Witness ==
  /\ onBeamStuck = "handler"
  /\ 0 \in DOMAIN beamPositions
  /\ beamPositions[0] = [lastScale |-> 1005, timestamp |-> lastTick, resetCount |-> 1]
  /\ transforms[0] = Matrix(1005)
  /\ TimesCalledWith(stuckCalls, 0) = 1

\* C15: resetBeamTracking(id) removes the entry of id and nothing else: the
\* other entries, the callback calls and the timer stay as they are; and the
\* next tick that finds the element of an id without entry records
\* {sampled scale, the tick's time, resetCount 0} and does not call the
\* callback with that id.
C15_ResetDeletesOneEntry ==
  [][\A id \in BeamIds :
       /\ ResetBeam(id) =>
            /\ DOMAIN beamPositions' = DOMAIN beamPositions \ {id}
            /\ \A b \in DOMAIN beamPositions' : beamPositions'[b] = beamPositions[b]
            /\ stuckCalls' = stuckCalls
            /\ intervals' = intervals
       /\ (TickStep /\ Configured(id) /\ id \notin DOMAIN beamPositions
              /\ transforms'[id] # NoElement) =>
            /\ beamPositions'[id] = [lastScale |-> CurrentScale(transforms'[id]),
                                     timestamp |-> now, resetCount |-> 0]
            /\ TimesCalledWith(stuckCalls', id) = 0]_vars

\* C15 witness: the last tick saw the elements of beams 0 and 1;
\* resetBeamTracking(0) has since removed the entry of beam 0 and left that
\* of beam 1.
C15_Witness ==
  /\ Len(beamConfigs) = 2
  /\ lastTick >= 2000
  /\ transforms[0] # NoElement
  /\ transforms[1] # NoElement
  /\ 0 \notin DOMAIN beamPositions
  /\ 1 \in DOMAIN beamPositions

\* the index of beam id b in the array
IndexOf(b) == CHOOSE k \in 1..Len(beamConfigs) : beamConfigs[k].id = b

\* what the body of forEach makes of beam b alone: from its own entry (if
\* any), its own element and the tick's time, nothing of the other beams
Alone(b) ==
  CheckBeam([positions |-> [x \in DOMAIN beamPositions \cap {b} |-> beamPositions[x]],
             calls |-> <<>>, errors |-> <<>>],
            beamConfigs[IndexOf(b)], onBeamStuck, now,
            [x \in BeamIds |-> IF x = b THEN transforms'[b] ELSE NoElement])

\* C17: on a tick the callbacks are called in the order of the array, and
\* each id is treated by itself: its new entry and whether the callback is
\* called with it are what its own entry, sampled scale, cycleDuration and
\* the tick's time give, and the entries of ids not in the array stay.
C17_ArrayOrderAndIndependence ==
  [][TickStep =>
       /\ \A i, j \in 1..Len(stuckCalls') :
            i < j => IndexOf(stuckCalls'[i]) < IndexOf(stuckCalls'[j])
       /\ \A b \in ConfiguredIds :
            /\ b \in DOMAIN beamPositions' <=> b \in DOMAIN Alone(b).positions
            /\ b \in DOMAIN beamPositions' =>
                 beamPositions'[b] = Alone(b).positions[b]
            /\ TimesCalledWith(stuckCalls', b) = Len(Alone(b).calls)
       /\ \A b \in BeamIds \ ConfiguredIds :
            /\ b \in DOMAIN beamPositions' <=> b \in DOMAIN beamPositions
            /\ b \in DOMAIN beamPositions' => beamPositions'[b] = beamPositions[b]
            /\ TimesCalledWith(stuckCalls', b) = 0]_vars

\* C17 witness: one tick has declared beams 0 and 1 stuck and called the
\* callback with 0, then with 1, as they stand in the array.
C17_Witness ==
  /\ Len(beamConfigs) = 2
  /\ beamConfigs[1].id = 0 /\ beamConfigs[2].id = 1
  /\ stuckCalls = <<0, 1>>
  /\ DOMAIN beamPositions = {0, 1}
  /\ beamPositions[0].timestamp = lastTick
  /\ beamPositions[1].timestamp = lastTick

\* C22: a tick that finds the element of a configured id without entry
\* records {sampled scale, tick time, 0} for it and neither calls the callback
\* nor logs the persistent issue for it; and no step that creates an entry
\* calls the callback with its id.
C22_FirstObservationOnlyRecords ==
  [][\A b \in BeamIds :
       /\ (TickStep /\ Configured(b) /\ b \notin DOMAIN beamPositions
              /\ transforms'[b] # NoElement) =>
            /\ b \in DOMAIN beamPositions'
            /\ beamPositions'[b].lastScale = CurrentScale(transforms'[b])
            /\ beamPositions'[b].timestamp = now
            /\ beamPositions'[b].resetCount = 0
       /\ (b \notin DOMAIN beamPositions /\ b \in DOMAIN beamPositions') =>
            /\ TickStep
            /\ ~CalledWith(stuckCalls', b)
            /\ ~CalledWith(stuckErrors', b)]_vars

\* C22 witness: the last tick has seen beams 0 and 1 for the first time, at
\* scales 1.02 and 1, with a callback given; nothing was called.
C22_Witness ==
  /\ onBeamStuck = "handler"
  /\ lastTick >= 2000
  /\ DOMAIN beamPositions = {0, 1}
  /\ beamPositions[0] = [lastScale |-> 1020, timestamp |-> lastTick, resetCount |-> 0]
  /\ beamPositions[1] = [lastScale |-> 1000, timestamp |-> lastTick, resetCount |-> 0]
  /\ highestResetCount = [b \in BeamIds |-> 0]
  /\ stuckCalls = <<>>

\* this step is a run of checkForStuckBeams that finds b, a beam of the
\* array, tracked, with its element more than 0.01 off the recorded scale
TickOnMoved(b) ==
  /\ TickStep
  /\ Configured(b)
  /\ b \in DOMAIN beamPositions
  /\ transforms'[b] # NoElement
  /\ MathAbs(CurrentScale(transforms'[b]) - beamPositions[b].lastScale) > 10

\* C23: on a tick that finds a tracked beam more than 0.01 off its lastScale
\* the entry becomes {sampled scale, tick time, the resetCount it had} and
\* the callback is not called with its id, however old the timestamp was.
C23_MovingKeepsResetCount ==
  [][\A b \in BeamIds :
       TickOnMoved(b) =>
         /\ beamPositions'[b] = [lastScale |-> CurrentScale(transforms'[b]),
                                 timestamp |-> now,
                                 resetCount |-> beamPositions[b].resetCount]
         /\ ~CalledWith(stuckCalls', b)]_vars

\* C23 witness: beam 0, declared stuck once, has moved to scale 1.02 on the
\* last tick: its entry is refreshed, its resetCount is still 1 and the
\* callback was not called.
C23_Witness ==
  /\ onBeamStuck = "handler"
  /\ 0 \in DOMAIN beamPositions
  /\ beamPositions[0] = [lastScale |-> 1020, timestamp |-> lastTick, resetCount |-> 1]
  /\ ~CalledWith(stuckCalls, 0)

----------------------------------------------------------------------------
(* Properties of the monitor whose callback resets the tracking, checked *)
(* under SpecRecover                                                     *)

\* C28: when the recovery callback calls resetBeamTracking(id), the id has no
\* entry at the end of the tick that called the callback with it, and the
\* entry it gets at a later observation has resetCount 0.
C28_ResetInsideCallbackTakesEffect ==
  [][\A b \in BeamIds :
       /\ (TickStep /\ TimesCalledWith(stuckCalls', b) > 0) =>
            b \notin DOMAIN beamPositions'
       /\ (b \notin DOMAIN beamPositions /\ b \in DOMAIN beamPositions') =>
            beamPositions'[b].resetCount = 0]_vars

\* C29: at most one timer is live, the one the last effect created: a render
\* clears the previous timer before the effect sets a new one. No live timer
\* is due sooner than 2000 ms after the last run of checkForStuckBeams, and a
\* run calls the callback at most once with an id.
C29_AtMostOneTimer ==
  /\ Cardinality(intervals) <= 1
  /\ intervals = intervalId
  /\ \A timer \in intervals : lastTick >= 0 => timer.due >= lastTick + 2000
  /\ \A b \in BeamIds : TimesCalledWith(stuckCalls, b) <= 1

\* C29 witness: the timer ticked at 2000 ms and a render at 4000 ms, when it
\* was due again, has replaced it: the one live timer is due at 6000 ms.
C29_Witness ==
  /\ enabled
  /\ lastTick = 2000
  /\ now = 4000
  /\ Cardinality(intervals) = 1
  /\ \A timer \in intervals : timer.due = 6000

\* this step is a render that changes the array, enabled or the callback
RenderStep ==
  \/ beamConfigs' # beamConfigs
  \/ enabled' # enabled
  \/ onBeamStuck' # onBeamStuck

\* C30: a render (disabling, emptying or replacing the array included)
\* leaves the tracking map as it is, and a tick that finds a tracked beam at
\* its recorded scale more than cycleDuration after the stored timestamp,
\* whatever happened in between, declares it stuck: the entry becomes
\* {sampled scale, tick time, resetCount + 1} and the callback is called.
C30_PauseKeepsTrackingMap ==
  [][/\ RenderStep => beamPositions' = beamPositions
     /\ \A b \in BeamIds :
          (TickOnStalled(b) /\ now - beamPositions[b].timestamp > CycleDurationMs(b)) =>
            /\ beamPositions'[b] =
                 [lastScale |-> CurrentScale(transforms'[b]),
                  timestamp |-> now,
                  resetCount |-> beamPositions[b].resetCount + 1]
            /\ onBeamStuck = "handler" => TimesCalledWith(stuckCalls', b) = 1]_vars

\* C30 witness: beam 0 was recorded at 2000 ms and not sampled since; the
\* monitor, re-enabled at 8000 ms after a pause, has its first tick due now,
\* at 10000 ms, with the entry of 2000 ms still in the map.
C30_Witness ==
  /\ enabled
  /\ onBeamStuck = "handler"
  /\ Configured(0)
  /\ lastTick = 2000
  /\ now = 10000
  /\ \E timer \in intervals : timer.due = 10000
  /\ 0 \in DOMAIN beamPositions
  /\ beamPositions[0].timestamp = 2000
  /\ beamPositions[0].resetCount = 0
  /\ CurrentScale(transforms[0]) = beamPositions[0].lastScale

----------------------------------------------------------------------------
(* Properties of getStats, checked under SpecStats *)

\* the sum of f over the set S
RECURSIVE SumOver(_, _)
SumOver(f, S) ==
  IF S = {} THEN 0
  ELSE LET x == CHOOSE y \in S : TRUE IN f[x] + SumOver(f, S \ {x})

\* C16: getStats returns totalBeams = the length of the array, trackedBeams
\* = the number of entries, beamsWithResets = the number of entries with
\* resetCount > 0 and totalResets = the sum of resetCount over the entries,
\* and the call changes nothing of the monitor.
C16_StatsReadOnlySnapshot ==
  [][stats' # stats =>
       /\ stats' = <<[totalBeams |-> Len(beamConfigs),
                      trackedBeams |-> Cardinality(DOMAIN beamPositions),
                      beamsWithResets |->
                        Cardinality({b \in DOMAIN beamPositions :
                                       beamPositions[b].resetCount > 0}),
                      totalResets |->
                        SumOver([b \in DOMAIN beamPositions |->
                                   beamPositions[b].resetCount],
                                DOMAIN beamPositions)]>>
       /\ UNCHANGED <<beamConfigs, enabled, onBeamStuck, beamPositions,
                      intervals, intervalId, now, transforms, stuckCalls,
                      lastTick>>]_vars

\* C16 witness: one beam configured, two tracked (with 3 resets and with
\* none): getStats has returned {1, 2, 1, 3}.
C16_Witness ==
  /\ Len(beamConfigs) = 1
  /\ DOMAIN beamPositions = {0, 1}
  /\ beamPositions[0].resetCount = 3
  /\ beamPositions[1].resetCount = 0
  /\ stats = <<[totalBeams |-> 1, trackedBeams |-> 2,
                beamsWithResets |-> 1, totalResets |-> 3]>>

----------------------------------------------------------------------------
(* Properties of the memo radialBeamConfigs, checked under SpecLightBeams *)

\* C20: when the first generation leaves no valid descriptor, the memo is
\* the fallback of 8 beams (45 degrees apart, cycleDuration 6, delays of
\* 0.15, radii computed from the window), and it is empty only if the
\* fallback generation gives nothing either.
C20_FallbackOfEightBeams ==
  (/\ lightBeamsResult # <<>>
   /\ lightBeamsArgs.hasWindow
   /\ Len(ValidatedBeams(lightBeamsArgs)) = 0) =>
    LET beams == lightBeamsResult[1]
        radii == calculateResponsiveRadii(SafeViewportWidth(lightBeamsArgs.innerWidth),
                                          SafeViewportHeight(lightBeamsArgs.innerHeight))
    IN IF Len(beams) = 0
       THEN Len(FallbackBeams(lightBeamsArgs)) = 0
       ELSE /\ Len(beams) = 8
            /\ \A k \in 1..Len(beams) :
                 /\ beams[k].angle = Num((k - 1) * 45000)
                 /\ beams[k].cycleDuration = Num(6000)
                 /\ beams[k].staggerDelay = Num((k - 1) * 150)
                 /\ beams[k].startRadius = radii.outer
                 /\ beams[k].endRadius = radii.inner

\* C26: in a browser the first generation, generateRadialBeams of the merged
\* request, returns exactly the merged count of descriptors, a number in
\* [16,36], all valid; it is never empty, so the memo is that generation and
\* the fallback branch is not taken.
C26_FirstGenerationNeverEmpty ==
  (lightBeamsResult # <<>> /\ lightBeamsArgs.hasWindow) =>
    LET safeConfig == SafeConfig(lightBeamsArgs)
        beams == generateRadialBeams(safeConfig, lightBeamsArgs.random)
    IN /\ Ge(safeConfig.count, Num(16)) /\ Le(safeConfig.count, Num(36))
       /\ Len(beams) = safeConfig.count.v
       /\ \A k \in 1..Len(beams) : validateBeamConfig(beams[k])
       /\ Len(ValidatedBeams(lightBeamsArgs)) > 0
       /\ lightBeamsResult[1] = beams

----------------------------------------------------------------------------
(* Properties of useBodyScrollLock, checked under SpecScrollLock *)

\* C21: whatever the order of locks and unlocks of the instances, the body's
\* overflow is 'hidden' while an instance is locked, and once none is locked
\* it is what it was before the first lock.
C21_HiddenWhileLockedThenRestored ==
  IF \E i \in Instances : scrollLocks[i].locked
  THEN bodyOverflow = "hidden"
  ELSE bodyOverflow = pageOverflow

====
